---- MODULE Spec2Model ----
(***************************************************************************)
(* A model of cmdstanpy/lib.py: the sampler argument set (SamplerArgs),    *)
(* its validation and command rendering, and the run set (RunSet) with its *)
(* per-chain exit codes.                                                   *)
(*                                                                         *)
(* Python strings are sequences of fragments: a fragment is either a       *)
(* literal piece of a format template, copied verbatim from the source, or *)
(* the rendering of one value.  The string is the concatenation of its     *)
(* fragments.  Python lists are sequences; list index i is position i+1.   *)
(* The module is assumed to import (its imports of utils succeed).         *)
(***************************************************************************)
EXTENDS Integers, Sequences, FiniteSets, TLC

VARIABLES args, fs, runset, stan_csv, call, result, prev

vars == <<args, fs, runset, stan_csv, call, result, prev>>

----------------------------------------------------------------------------
(* Bounds of the model *)

\* largest chain count a run set is constructed with
MaxChains == 3
\* largest draw count supplied to an argument set
MaxDraws == 1

----------------------------------------------------------------------------
(* Python values *)

None == [t |-> "None"]
PyInt(n) == [t |-> "int", v |-> n]
\* a float with one decimal digit, given in tenths: PyFloat(15) is 1.5
PyFloat(tenths) == [t |-> "float", v |-> tenths]
\* a string, as its fragments
PyStr(s) == [t |-> "str", v |-> s]

Abs(n) == IF n < 0 THEN -n ELSE n

\* str(x), what '{}'.format(x) renders
Str(x) ==
  CASE x.t = "None" -> <<"None">>
    [] x.t = "int" -> <<ToString(x.v)>>
    [] x.t = "float" ->
         <<(IF x.v < 0 THEN "-" ELSE "") \o ToString(Abs(x.v) \div 10)
             \o "." \o ToString(Abs(x.v) % 10)>>
    [] x.t = "str" -> x.v

\* x < 0 on Python numbers
LessThanZero(x) == x.v < 0

Return(v) == [kind |-> "return", val |-> v]
Raise(exc, msg) == [kind |-> "raise", exc |-> exc, msg |-> msg]
NoResult == [kind |-> "none"]

\* the pieces of a format template: literal text, and a replacement field
\* '{name}' ('{}' has the empty name)
Lit(s) == [lit |-> s]
Field(name) == [field |-> name]

\* template.format(*posargs) from piece k on, auto being the number of '{}'
\* fields already filled; no keyword arguments are passed, so a field with a
\* name raises KeyError
RECURSIVE format_from(_, _, _, _)
format_from(template, posargs, k, auto) ==
  IF k > Len(template) THEN Return(<<>>)
  ELSE LET piece == template[k]
           here == IF "lit" \in DOMAIN piece THEN Return(<<piece.lit>>)
                   ELSE IF piece.field # "" THEN Raise("KeyError", piece.field)
                   ELSE IF auto + 1 > Len(posargs)
                   THEN Raise("IndexError", "Replacement index out of range")
                   ELSE Return(Str(posargs[auto + 1]))
           used == IF "lit" \in DOMAIN piece THEN auto ELSE auto + 1
       IN IF here.kind = "raise" THEN here
          ELSE LET rest == format_from(template, posargs, k + 1, used)
               IN IF rest.kind = "raise" THEN rest
                  ELSE Return(here.val \o rest.val)

format(template, posargs) == format_from(template, posargs, 1, 0)

----------------------------------------------------------------------------
(* SamplerArgs.compose_command *)

\* cmd = '{} <lit>{}'.format(cmd, v) under "if v is not None"
Opt(lit, v) == IF v # None THEN <<lit>> \o Str(v) ELSE <<>>

\* '{}-{}.csv'.format(self.output_file, chain_id)
ChainOutputFile(output_file, chain_id) ==
  format(<<Field(""), Lit("-"), Field(""), Lit(".csv")>>,
         <<output_file, PyInt(chain_id)>>).val

cmd_exe(a, chain_id) ==
  Str(a.model.exe_file) \o <<" id=">> \o Str(PyInt(chain_id))
    \o Opt(" random seed=", a.seed)
    \o Opt(" data file=", a.data_file)
    \o Opt(" init=", a.init_param_values)

\* cmd_output with the method marker appended before the refresh interval
cmd_output_method_first(a, chain_id) ==
  <<" output file=">> \o ChainOutputFile(a.output_file, chain_id)
    \o <<" method=sample">>
    \o Opt(" refresh=", a.refresh)

cmd_output(a, chain_id) ==
  <<" output file=">> \o ChainOutputFile(a.output_file, chain_id)
    \o Opt(" refresh=", a.refresh)
    \o <<" method=sample">>

cmd_draws(a) ==
  Opt(" num_samples=", a.post_warmup_draws)
    \o Opt(" num_warmup=", a.warmup_draws)
    \o (IF a.save_warmup THEN <<" save_warmup=1">> ELSE <<>>)
    \o Opt(" thin=", a.thin)

cmd_algorithm(a) ==
  <<" algorithm=hmc">> \o Opt(" engine=nuts max_depth=", a.nuts_max_depth)

\* cmd_adapt_marker without the test of the tuning scalars
cmd_adapt_marker_unconditional(a) ==
  IF a.do_adaptation THEN <<" adapt">> ELSE <<>>

cmd_adapt_marker(a) ==
  IF a.do_adaptation /\ ~(a.adapt_gamma = None /\ a.adapt_delta = None
                           /\ a.adapt_kappa = None /\ a.adapt_t0 = None)
  THEN <<" adapt">>
  ELSE <<>>

cmd_adapt_scalars(a) ==
  Opt(" gamma=", a.adapt_gamma)
    \o Opt(" delta=", a.adapt_delta)
    \o Opt(" kappa=", a.adapt_kappa)
    \o Opt(" t0=", a.adapt_t0)

cmd_hmc(a) ==
  (IF a.hmc_metric_file # None
   THEN <<" metric_file=\"">> \o Str(a.hmc_metric_file) \o <<"\"">>
   ELSE <<>>)
    \o Opt(" stepsize=", a.hmc_stepsize)

\* self.model.exe_file on a model of None is an AttributeError
compose_command(a, chain_id) ==
  IF a.model = None
  THEN Raise("AttributeError", "'NoneType' object has no attribute 'exe_file'")
  ELSE Return(cmd_exe(a, chain_id) \o cmd_output(a, chain_id) \o cmd_draws(a)
                \o cmd_algorithm(a) \o cmd_adapt_marker(a)
                \o cmd_adapt_scalars(a) \o cmd_hmc(a))

----------------------------------------------------------------------------
(* SamplerArgs.validate *)

\* rng.randint(1, 99999 + 1) draws from RandSeedLow..RandSeedHigh
RandSeedLow == 1
RandSeedHigh == 99999

\* utils.is_int
is_int(x) == x.t = "int"

\* x > 2**32-1, for an integer x
Above2Pow32Minus1(x) == x.v \div 65536 > 65535

\* os.path.exists(path) in the file system files, a set of paths
exists(files, path) == path.v \in files

\* self.output_file.endswith('.csv')
endswith_csv(path) == Len(path.v) > 0 /\ path.v[Len(path.v)] = ".csv"

\* self.output_file[:-4], on a path that ends with '.csv'
strip_csv(path) == PyStr(SubSeq(path.v, 1, Len(path.v) - 1))

\* open(path, 'w+') succeeds unless the path lies in a directory that is missing
can_open_w(path) == Len(path.v) = 0 \/ path.v[1] # "nodir/"

Outcome(r, a, files) == [result |-> r, args |-> a, fs |-> files]

\* lines 206-213: the checks of the draw counts
validate_draws(a, files) ==
  IF a.post_warmup_draws # None
       /\ (~is_int(a.post_warmup_draws) \/ LessThanZero(a.post_warmup_draws))
  THEN Outcome(Raise("ValueError",
                     "post_warmup_draws must be a non-negative integer value"),
               a, files)
  ELSE IF a.warmup_draws # None
            /\ (~is_int(a.post_warmup_draws) \/ LessThanZero(a.warmup_draws))
  THEN Outcome(Raise("ValueError",
                     "warmup_draws must be a non-negative integer value"),
               a, files)
  ELSE Outcome(Return(None), a, files)

\* lines 197-205: the data, init and metric files exist
validate_files(a, files) ==
  IF a.data_file # None /\ ~exists(files, a.data_file)
  THEN Outcome(Raise("ValueError", "no such file"), a, files)
  ELSE IF a.init_param_values # None /\ ~exists(files, a.init_param_values)
  THEN Outcome(Raise("ValueError", "no such file"), a, files)
  ELSE IF a.hmc_metric_file # None /\ ~exists(files, a.hmc_metric_file)
  THEN Outcome(Raise("ValueError", "no such file"), a, files)
  ELSE validate_draws(a, files)

\* lines 191-196: the seed, drawn as rnd when none is given
validate_seed(a, files, rnd) ==
  IF a.seed = None
  THEN validate_files([a EXCEPT !.seed = PyInt(rnd)], files)
  ELSE IF ~is_int(a.seed) \/ LessThanZero(a.seed) \/ Above2Pow32Minus1(a.seed)
  THEN Outcome(Raise("ValueError",
                     "seed must be an integer value between 0 and 2**32-1"),
               a, files)
  ELSE validate_files(a, files)

\* lines 183-190: the output file, stripped of one '.csv' and created
validate_output(a, files, rnd) ==
  IF a.output_file = None
  THEN Outcome(Raise("ValueError", "no output file specified"), a, files)
  ELSE LET a1 == IF endswith_csv(a.output_file)
                 THEN [a EXCEPT !.output_file = strip_csv(a.output_file)]
                 ELSE a
       IN IF ~can_open_w(a1.output_file)
          THEN Outcome(Raise("ValueError", "invalid path for output csv files"),
                       a1, files)
          ELSE validate_seed(a1, files \cup {a1.output_file.v}, rnd)

\* SamplerArgs.validate: the outcome, the attributes and the file system it
\* leaves, rnd being what the random generator returns
validate(a, files, rnd) ==
  IF a.model = None
  THEN Outcome(Raise("ValueError", "no stan model specified"), a, files)
  ELSE IF a.model.exe_file = None
  THEN Outcome(Raise("ValueError", "stan model must be compiled first"), a, files)
  ELSE IF ~exists(files, a.model.exe_file)
  THEN Outcome(Raise("ValueError", "cannot access model executible"), a, files)
  ELSE validate_output(a, files, rnd)

----------------------------------------------------------------------------
(* RunSet *)

\* the names bound at module level in lib.py (imports and classes)
ModuleNames ==
  {"json", "os", "pformat", "np", "is_int", "Model", "PosteriorSample",
   "rdump", "RunSet", "SamplerArgs", "StanData"}

\* the module's global namespace
ModuleGlobals == [n \in ModuleNames |-> n]

\* the builtins the module's code names
BuiltinNames ==
  {"object", "range", "open", "print", "Exception", "ValueError", "IOError",
   "OSError", "None", "True", "False"}

\* a name in a method body resolves to a local, a module global or a builtin
resolves(name, locals) == name \in locals \cup ModuleNames \cup BuiltinNames

NameError(name) == Raise("NameError", name)

\* position of Python index idx in list l; 0 when idx is out of range
list_pos(l, idx) ==
  LET pos == IF idx >= 0 THEN idx + 1 ELSE Len(l) + idx + 1
  IN IF pos \in 1..Len(l) THEN pos ELSE 0

\* ChainTranscriptFile numbering the chains from 0
ChainTranscriptFile_zero_based(transcript_file, chain_id) ==
  format(<<Field(""), Lit("-"), Field(""), Lit(".txt")>>,
         <<transcript_file, PyInt(chain_id - 1)>>).val

\* '{}-{}.txt'.format(transcript_file, i+1)
ChainTranscriptFile(transcript_file, chain_id) ==
  format(<<Field(""), Lit("-"), Field(""), Lit(".txt")>>,
         <<transcript_file, PyInt(chain_id)>>).val

\* RunSet.__init__: the object, or the exception that leaves none.  The
\* lists are built over range(chains), list position p holding index p-1,
\* before chains is checked.
RunSet_init(chains, cores, a, transcript_file) ==
  LET cmds == [p \in 1..chains |-> compose_command(a, (p - 1) + 1)]
      failed == {p \in 1..chains : cmds[p].kind = "raise"}
  IN IF failed # {}
     THEN cmds[CHOOSE p \in failed : \A q \in failed : p <= q]
     ELSE IF chains < 1
     THEN LET msg == format(<<Lit("chains must be positive integer value, found "),
                              Field("i]")>>, <<PyInt(chains)>>)
          IN IF msg.kind = "raise" THEN msg ELSE Raise("ValueError", msg.val)
     ELSE Return([chains |-> chains,
                  cores |-> cores,
                  args |-> a,
                  transcript_file |-> transcript_file,
                  cmds |-> [p \in 1..chains |-> cmds[p].val],
                  output_files |->
                    [p \in 1..chains |-> ChainOutputFile(a.output_file, (p - 1) + 1)],
                  transcript_files |->
                    [p \in 1..chains |-> ChainTranscriptFile(transcript_file, (p - 1) + 1)],
                  retcodes |-> [p \in 1..chains |-> -1]])

\* RunSet.get_retcode
get_retcode(rs, idx) ==
  IF list_pos(rs.retcodes, idx) = 0
  THEN Raise("IndexError", "list index out of range")
  ELSE Return(rs.retcodes[list_pos(rs.retcodes, idx)])

\* set_retcode storing val in every slot
set_retcode_fill(rs, idx, val) ==
  IF list_pos(rs.retcodes, idx) = 0
  THEN [result |-> Raise("IndexError", "list assignment index out of range"),
        runset |-> rs]
  ELSE [result |-> Return(None),
        runset |-> [rs EXCEPT !.retcodes = [p \in 1..Len(rs.retcodes) |-> val]]]

\* RunSet.set_retcode: the outcome and the object it leaves
set_retcode(rs, idx, val) ==
  IF list_pos(rs.retcodes, idx) = 0
  THEN [result |-> Raise("IndexError", "list assignment index out of range"),
        runset |-> rs]
  ELSE [result |-> Return(None),
        runset |-> [rs EXCEPT !.retcodes[list_pos(rs.retcodes, idx)] = val]]

\* RunSet.is_success: range(chains) reads the free name chains, then the
\* loop reads the free names false and true
is_success(rs) ==
  IF ~resolves("chains", {"self"}) THEN NameError("chains")
  ELSE LET n == ModuleGlobals["chains"]
           nonzero == {i \in 0..(n - 1) :
                         list_pos(rs.retcodes, i) = 0
                           \/ rs.retcodes[list_pos(rs.retcodes, i)] # 0}
       IN IF nonzero = {}
          THEN IF resolves("true", {"self", "i"})
               THEN Return(ModuleGlobals["true"]) ELSE NameError("true")
          ELSE IF list_pos(rs.retcodes, CHOOSE i \in nonzero : \A j \in nonzero : i <= j) = 0
          THEN Raise("IndexError", "list index out of range")
          ELSE IF resolves("false", {"self", "i"})
               THEN Return(ModuleGlobals["false"]) ELSE NameError("false")

\* the Validation Record utils.scan_stan_csv parses from chain p's result file
scan_stan_csv(csv, p) == csv[p]

\* RunSet.validate: range(chains) reads the free name chains; the loop body
\* reads the free names scan_stan_csv and i, parses the same file
\* output_files[i] for every x, so that no key differs, and ends in the
\* free name true
RunSet_validate(rs, csv) ==
  IF ~resolves("chains", {"self", "dzero"}) THEN NameError("chains")
  ELSE LET n == ModuleGlobals["chains"]
       IN IF n >= 1 /\ ~resolves("scan_stan_csv", {"self", "dzero", "x"})
          THEN NameError("scan_stan_csv")
          ELSE IF n >= 1 /\ ~resolves("i", {"self", "dzero", "x"})
          THEN NameError("i")
          ELSE IF n >= 1 /\ list_pos(rs.output_files, ModuleGlobals["i"]) = 0
          THEN Raise("IndexError", "list index out of range")
          ELSE IF n >= 2
                  /\ \E key \in DOMAIN scan_stan_csv(csv, list_pos(rs.output_files, ModuleGlobals["i"])) \ {"id"} :
                       scan_stan_csv(csv, list_pos(rs.output_files, ModuleGlobals["i"]))[key]
                         # scan_stan_csv(csv, list_pos(rs.output_files, ModuleGlobals["i"]))[key]
          THEN IF resolves("false", {"self", "dzero", "x", "d", "key"})
               THEN Return(ModuleGlobals["false"]) ELSE NameError("false")
          ELSE IF resolves("true", {"self", "dzero", "x", "d", "key"})
               THEN Return(ModuleGlobals["true"]) ELSE NameError("true")

----------------------------------------------------------------------------
(* State shared by the specifications *)

\* no RunSet object exists
NoRunSet == [t |-> "None"]

\* Model(stan_file, exe_file=...) for a compiled model
TheModel == [t |-> "Model", stan_file |-> PyStr(<<"bernoulli.stan">>),
             name |-> None, exe_file |-> PyStr(<<"bernoulli">>)]

Range(s) == {s[k] : k \in 1..Len(s)}

----------------------------------------------------------------------------
(* Command rendering: every combination of set and unset optional fields *)

CmdArgs ==
  [model : {TheModel},
   seed : {None, PyInt(1234)},
   data_file : {None, PyStr(<<"data.R">>)},
   init_param_values : {None, PyStr(<<"init.R">>)},
   output_file : {PyStr(<<"out">>)},
   refresh : {None, PyInt(100)},
   post_warmup_draws : {None, PyInt(MaxDraws)},
   warmup_draws : {None, PyInt(MaxDraws)},
   save_warmup : BOOLEAN,
   thin : {None, PyInt(2)},
   do_adaptation : BOOLEAN,
   adapt_gamma : {None, PyFloat(1)},
   adapt_delta : {None, PyFloat(8)},
   adapt_kappa : {None, PyFloat(7)},
   adapt_t0 : {None, PyInt(10)},
   nuts_max_depth : {None, PyInt(12)},
   hmc_metric_file : {None, PyStr(<<"metric.R">>)},
   hmc_stepsize : {None, PyFloat(5)}]

InitCmd ==
  /\ args \in CmdArgs
  /\ fs = {}
  /\ runset = NoRunSet
  /\ stan_csv = <<>>
  /\ call = [op |-> "SamplerArgs"]
  /\ result = NoResult
  /\ prev = <<>>

ComposeCommand(chain_id) ==
  /\ call' = [op |-> "compose_command", chain_id |-> chain_id]
  /\ result' = compose_command(args, chain_id)
  /\ UNCHANGED <<args, fs, runset, stan_csv, prev>>

NextCmd == \E chain_id \in 1..MaxChains : ComposeCommand(chain_id)

SpecCmd == InitCmd /\ [][NextCmd]_vars

\* a command has been rendered
Composed == call.op = "compose_command" /\ result.kind = "return"

\* the field markers of the command, in the order the source appends them
SourceOrder ==
  <<" id=", " random seed=", " data file=", " init=", " output file=",
    " refresh=", " method=sample", " num_samples=", " num_warmup=",
    " save_warmup=1", " thin=", " algorithm=hmc", " engine=nuts max_depth=",
    " adapt", " gamma=", " delta=", " kappa=", " t0=", " metric_file=\"",
    " stepsize=">>

\* the same markers in the order the specification lists them
ListedOrder ==
  <<" id=", " random seed=", " data file=", " init=", " output file=",
    " refresh=", " method=sample", " num_samples=", " num_warmup=",
    " thin=", " save_warmup=1", " algorithm=hmc", " engine=nuts max_depth=",
    " adapt", " gamma=", " delta=", " kappa=", " t0=", " metric_file=\"",
    " stepsize=">>

PosIn(order, lit) == CHOOSE k \in 1..Len(order) : order[k] = lit

\* the markers of cmd occur in the relative order of `order`, after the
\* executable path exe
InOrder(cmd, exe, order) ==
  LET markers == Range(order)
      found == SelectSeq(cmd, LAMBDA f : f \in markers)
  IN /\ SubSeq(cmd, 1, Len(exe)) = exe
     /\ \A k \in 1..(Len(found) - 1) :
          PosIn(order, found[k]) < PosIn(order, found[k + 1])

\* C6 as amended: the markers present in a rendered command appear after the
\* executable path in the relative order id, random seed, data file, init,
\* output file, refresh, method=sample, num_samples, num_warmup, save_warmup,
\* thin, algorithm=hmc, max_depth, adapt, gamma, delta, kappa, t0,
\* metric_file, stepsize: the save-warmup marker precedes the thinning token.
C6_SourceOrder ==
  Composed => InOrder(result.val, Str(args.model.exe_file), SourceOrder)

\* C6 as stated: the markers present appear in the listed order, in which
\* the thinning token precedes the save-warmup marker.
C6_ListedOrder ==
  Composed => InOrder(result.val, Str(args.model.exe_file), ListedOrder)

\* C6 witness: a command rendered with every optional field set, the
\* thinning token and the save-warmup marker among its twenty markers.
C6_AllFieldsRendered ==
  /\ Composed
  /\ Range(SourceOrder) \subseteq Range(result.val)

AdaptPositions(cmd) == {p \in 1..Len(cmd) : cmd[p] = " adapt"}

TuningSet(a) ==
  ~(a.adapt_gamma = None /\ a.adapt_delta = None
      /\ a.adapt_kappa = None /\ a.adapt_t0 = None)

\* C9: the adapt marker is in the rendered command iff do_adaptation is
\* true and at least one of the four tuning scalars is set, and it is there
\* at most once.
C9_AdaptMarkerIff ==
  Composed =>
    /\ (AdaptPositions(result.val) # {}) <=> (args.do_adaptation /\ TuningSet(args))
    /\ Cardinality(AdaptPositions(result.val)) <= 1

\* C9 witness: a command rendered with adaptation on and only gamma set,
\* which carries the marker.
C9_MarkerRendered ==
  /\ Composed
  /\ args.do_adaptation /\ args.adapt_gamma # None
  /\ args.adapt_delta = None /\ args.adapt_kappa = None /\ args.adapt_t0 = None
  /\ AdaptPositions(result.val) # {}

TuningMarkers == {" gamma=", " delta=", " kappa=", " t0="}

\* C10: in a rendered command every tuning token (gamma=, delta=, kappa=,
\* t0=) comes after an adapt marker of the same command.
C10_TuningAfterMarker ==
  Composed =>
    \A p \in 1..Len(result.val) :
      result.val[p] \in TuningMarkers
        => \E q \in 1..(p - 1) : result.val[q] = " adapt"

----------------------------------------------------------------------------
(* Validation of an argument set *)

UncompiledModel == [TheModel EXCEPT !.exe_file = None]
MissingExeModel == [TheModel EXCEPT !.exe_file = PyStr(<<"nomodel">>)]

\* the files that exist before any validation
InitialFiles == {<<"bernoulli">>, <<"data.R">>, <<"metric.R">>}

DrawCounts == {None, PyInt(-1), PyFloat(15)} \cup {PyInt(n) : n \in 0..MaxDraws}

ValidateArgs ==
  [model : {None, UncompiledModel, MissingExeModel, TheModel},
   seed : {None, PyInt(-1), PyInt(1234), PyFloat(15)},
   data_file : {None, PyStr(<<"data.R">>), PyStr(<<"nodata.R">>)},
   init_param_values : {None, PyStr(<<"noinit.R">>)},
   output_file : {None, PyStr(<<"out">>), PyStr(<<"out", ".csv">>),
                  PyStr(<<"out", ".csv", ".csv">>),
                  PyStr(<<"nodir/", "out", ".csv">>)},
   refresh : {None},
   post_warmup_draws : DrawCounts,
   warmup_draws : DrawCounts,
   save_warmup : {FALSE},
   thin : {None},
   do_adaptation : {TRUE},
   adapt_gamma : {None},
   adapt_delta : {None},
   adapt_kappa : {None},
   adapt_t0 : {None},
   nuts_max_depth : {None},
   hmc_metric_file : {None, PyStr(<<"metric.R">>)},
   hmc_stepsize : {None}]

InitArgs ==
  /\ args \in ValidateArgs
  /\ fs = InitialFiles
  /\ runset = NoRunSet
  /\ stan_csv = <<>>
  /\ call = [op |-> "SamplerArgs"]
  /\ result = NoResult
  /\ prev = <<>>

Validate(rnd) ==
  LET out == validate(args, fs, rnd)
  IN /\ call' = [op |-> "validate"]
     /\ result' = out.result
     /\ args' = out.args
     /\ fs' = out.fs
     /\ UNCHANGED <<runset, stan_csv, prev>>

NextArgs == \E rnd \in {RandSeedLow, RandSeedHigh} : Validate(rnd)

SpecArgs == InitArgs /\ [][NextArgs]_vars

\* C7: once validate() has returned without error, a further validate()
\* raises nothing and leaves every attribute as it was.
C7_ValidateIdempotent ==
  [][(call.op = "validate" /\ result.kind = "return")
       => (result'.kind = "return" /\ args' = args)]_vars

NonNegativeInt(x) == x.t = "int" /\ x.v >= 0

\* every field other than the draw counts is valid
OtherFieldsValid(a, files) ==
  /\ a.model # None /\ a.model.exe_file # None /\ a.model.exe_file.v \in files
  /\ a.output_file # None /\ a.output_file.v[1] # "nodir/"
  /\ a.seed = None \/ NonNegativeInt(a.seed)
  /\ \A f \in {a.data_file, a.init_param_values, a.hmc_metric_file} :
       f = None \/ f.v \in files

\* C8: on an argument set valid in every other field, validate() raises
\* exactly when post_warmup_draws or warmup_draws is supplied and is not a
\* non-negative integer.
C8_DrawCountErrors ==
  (call.op = "validate" /\ OtherFieldsValid(args, fs)) =>
    ((result.kind = "raise") <=>
       \/ (args.post_warmup_draws # None /\ ~NonNegativeInt(args.post_warmup_draws))
       \/ (args.warmup_draws # None /\ ~NonNegativeInt(args.warmup_draws)))

----------------------------------------------------------------------------
(* The run set: construction and the operations on the object *)

\* a validated argument set, and one that no model was given to
ValidatedArgs ==
  [model |-> TheModel, seed |-> PyInt(1234), data_file |-> PyStr(<<"data.R">>),
   init_param_values |-> None, output_file |-> PyStr(<<"out">>),
   refresh |-> None, post_warmup_draws |-> None, warmup_draws |-> None,
   save_warmup |-> FALSE, thin |-> None, do_adaptation |-> TRUE,
   adapt_gamma |-> None, adapt_delta |-> PyFloat(8), adapt_kappa |-> None,
   adapt_t0 |-> None, nuts_max_depth |-> None, hmc_metric_file |-> None,
   hmc_stepsize |-> None]

RunArgs == {ValidatedArgs, [ValidatedArgs EXCEPT !.model = None]}

\* the exit codes a worker records: killed by signal 1, success, failure
RetCodes == {-1, 0, 1}

\* the Validation Records of the chains' result files: chain p carries id p
\* and a declared parameter dimension
ValidationRecords == [1..MaxChains -> [id : {0}, dim : 1..2]]

Init ==
  /\ args \in RunArgs
  /\ fs = {}
  /\ runset = NoRunSet
  /\ stan_csv \in {[p \in 1..MaxChains |-> [r[p] EXCEPT !.id = p]] : r \in ValidationRecords}
  /\ call = [op |-> "SamplerArgs"]
  /\ result = NoResult
  /\ prev = <<>>

\* RunSet(chains, cores, args, transcript_file)
Construct(chains, cores) ==
  /\ runset = NoRunSet
  /\ LET r == RunSet_init(chains, cores, args, PyStr(<<"transcript">>))
     IN /\ result' = r
        /\ runset' = IF r.kind = "return" THEN r.val ELSE NoRunSet
  /\ call' = [op |-> "RunSet", chains |-> chains]
  /\ prev' = <<>>
  /\ UNCHANGED <<args, fs, stan_csv>>

SetRetcode(idx, val) ==
  /\ runset # NoRunSet
  /\ LET out == set_retcode(runset, idx, val)
     IN /\ result' = out.result
        /\ runset' = out.runset
  /\ call' = [op |-> "set_retcode", idx |-> idx, val |-> val]
  /\ prev' = runset.retcodes
  /\ UNCHANGED <<args, fs, stan_csv>>

GetRetcode(idx) ==
  /\ runset # NoRunSet
  /\ result' = get_retcode(runset, idx)
  /\ call' = [op |-> "get_retcode", idx |-> idx]
  /\ prev' = runset.retcodes
  /\ UNCHANGED <<args, fs, runset, stan_csv>>

IsSuccess ==
  /\ runset # NoRunSet
  /\ result' = is_success(runset)
  /\ call' = [op |-> "is_success"]
  /\ prev' = runset.retcodes
  /\ UNCHANGED <<args, fs, runset, stan_csv>>

ValidateRunSet ==
  /\ runset # NoRunSet
  /\ result' = RunSet_validate(runset, stan_csv)
  /\ call' = [op |-> "validate"]
  /\ prev' = runset.retcodes
  /\ UNCHANGED <<args, fs, runset, stan_csv>>

Next ==
  \/ \E chains \in -1..MaxChains : Construct(chains, 2)
  \/ \E idx \in -(MaxChains + 1)..MaxChains, val \in RetCodes : SetRetcode(idx, val)
  \/ \E idx \in -(MaxChains + 1)..MaxChains : GetRetcode(idx)
  \/ IsSuccess
  \/ ValidateRunSet

Spec == Init /\ [][Next]_vars

\* C1: is_success() returns a boolean, true iff every exit-code slot is 0
\* (so false while a slot still holds -1).
C1_IsSuccessIffAllZero ==
  call.op = "is_success" =>
    /\ result.kind = "return"
    /\ result.val = (\A p \in 1..Len(runset.retcodes) : runset.retcodes[p] = 0)

\* C2: validate() returns true iff every chain's Validation Record agrees
\* with chain 0's on every key other than 'id' (so true for one chain).
C2_ValidateComparesRecords ==
  call.op = "validate" =>
    /\ result.kind = "return"
    /\ result.val =
         (\A p \in 2..runset.chains :
            \A key \in DOMAIN stan_csv[1] \ {"id"} :
              stan_csv[p][key] = stan_csv[1][key])

\* C3 as stated: a slot that holds a concrete code is never changed again.
C3_SlotWrittenOnce ==
  [][(runset # NoRunSet /\ runset' # NoRunSet) =>
       \A p \in 1..Len(runset.retcodes) :
         runset.retcodes[p] # -1 => runset'.retcodes[p] = runset.retcodes[p]]_vars

\* C3 as amended: every slot starts at -1, and a slot changes only by a
\* set_retcode(idx, val) call that names it (idx counted from the end when
\* negative) and does not raise; such a call stores val in that slot
\* whatever the slot held, and leaves the other slots as they were.
C3_OnlySetRetcodeWrites ==
  [][/\ (runset = NoRunSet /\ runset' # NoRunSet) =>
          \A p \in 1..Len(runset'.retcodes) : runset'.retcodes[p] = -1
     /\ (runset # NoRunSet /\ runset' # NoRunSet) =>
          /\ Len(runset'.retcodes) = Len(runset.retcodes)
          /\ \A p \in 1..Len(runset.retcodes) :
               runset'.retcodes[p] # runset.retcodes[p] =>
                 /\ call'.op = "set_retcode" /\ result'.kind = "return"
                 /\ p = (IF call'.idx >= 0 THEN call'.idx + 1
                         ELSE Len(runset.retcodes) + call'.idx + 1)
          /\ (call'.op = "set_retcode" /\ result'.kind = "return") =>
               \E p \in 1..Len(runset.retcodes) :
                 /\ p = (IF call'.idx >= 0 THEN call'.idx + 1
                         ELSE Len(runset.retcodes) + call'.idx + 1)
                 /\ runset'.retcodes[p] = call'.val]_vars

\* C3 witness: a set_retcode call has overwritten a slot that held a
\* concrete code with another code.
C3_ConcreteCodeOverwritten ==
  /\ runset # NoRunSet
  /\ call.op = "set_retcode" /\ result.kind = "return"
  /\ \E p \in 1..Len(runset.retcodes) :
       prev[p] = 0 /\ runset.retcodes[p] = 1

\* C4: a constructed run set has chain count N >= 1 and N commands, output
\* files, transcript files and exit-code slots; entry i belongs to chain id
\* i+1; every slot is -1 after construction; the lengths and the first three
\* collections stay so after any set_retcode calls.
C4_CollectionsAligned ==
  runset # NoRunSet =>
    /\ runset.chains >= 1
    /\ Len(runset.cmds) = runset.chains
    /\ Len(runset.output_files) = runset.chains
    /\ Len(runset.transcript_files) = runset.chains
    /\ Len(runset.retcodes) = runset.chains
    /\ \A i \in 0..(runset.chains - 1) :
         /\ runset.cmds[i + 1] = compose_command(args, i + 1).val
         /\ runset.output_files[i + 1]
              = Str(args.output_file) \o <<"-", ToString(i + 1), ".csv">>
         /\ runset.transcript_files[i + 1]
              = <<"transcript", "-", ToString(i + 1), ".txt">>
         /\ call.op = "RunSet" => runset.retcodes[i + 1] = -1

\* C4 witness: a run set of two or more chains after a set_retcode call
\* that stored a code.
C4_AfterSetRetcode ==
  /\ runset # NoRunSet
  /\ runset.chains >= 2
  /\ call.op = "set_retcode" /\ result.kind = "return"
  /\ \E p \in 1..Len(runset.retcodes) : runset.retcodes[p] # -1

\* C5: construction with chain_count < 1 raises ValueError and leaves no
\* run set; construction with chain_count = 1 from a valid argument set
\* succeeds.
C5_ChainCountChecked ==
  call.op = "RunSet" =>
    /\ call.chains < 1 =>
         (result.kind = "raise" /\ result.exc = "ValueError" /\ runset = NoRunSet)
    /\ (call.chains = 1 /\ args = ValidatedArgs) => result.kind = "return"

====
